---- MODULE Spec2Model ----
(***************************************************************************)
(* Model of rns-vpn (src/src/lib.rs): Client::new, the construction of the *)
(* peer registry in Client::run, and the four loops of Client::run         *)
(* (announce_loop, link_loop, tun_loop, upstream_loop) raced by            *)
(* tokio::select! against ctrl-c.                                          *)
(*                                                                         *)
(* Each loop is a future polled by the one task that runs select!: a loop  *)
(* runs without interruption from one .await to the next, so every action  *)
(* below is the code between two suspension points.  The mesh transport    *)
(* and the tun device are the environment: what they return is chosen      *)
(* nondeterministically.                                                   *)
(*                                                                         *)
(* Option<T> is a sequence of length at most one: <<>> is None, <<x>> is   *)
(* Some(x).  A local variable holds None outside its scope.                *)
(***************************************************************************)
EXTENDS Integers, Sequences, FiniteSets, TLC

\* ------------------------------------------------------------------ bounds
\* peers of a configuration
MaxPeers == 2
\* largest value of a packet's or a payload's data byte
MaxByte == 0
\* largest address hash the transport names; 0 is the local destination's
MaxHash == 2

None == <<>>
Some(x) == <<x>>

\* IPv4 host addresses a configuration may name, as IpAddr values <<family, host>>
Hosts == {1, 2, 3}
Addrs == {<<4, n>> : n \in Hosts}
PrefixLens == {24, 32}
IpNets == [addr : Addrs, prefix_len : PrefixLens]
\* destination strings of a configuration: sequences of characters
DestStrings == {<<"0", "1">>, <<"0", "2">>, <<"z", "z">>}
\* address hashes the transport can name (announce sources, link event scopes)
AddressHashes == {<<b>> : b \in 0..MaxHash}
LinkIds == {1, 2}
\* raw packets the tun device can deliver: <<version, destination host, data>>,
\* or a truncated packet holding the version byte only
Versions == {4, 6, 0}
Packets ==
  {<<v, n, b>> : v \in Versions, n \in Hosts, b \in 0..MaxByte}
    \cup {<<v>> : v \in Versions}
\* payloads of inbound link data events
Payloads == {<<4, 1, b>> : b \in 0..MaxByte}
LinkEvents ==
  [address_hash : AddressHashes, id : LinkIds, kind : {"Data"}, payload : Payloads]
    \cup [address_hash : AddressHashes, id : LinkIds,
          kind : {"Activated", "Closed"}, payload : {<<>>}]
Configs ==
  [vpn_ip : IpNets,
   peers : UNION {[S -> DestStrings] :
                    S \in {T \in SUBSET IpNets : Cardinality(T) <= MaxPeers}}]

VARIABLES
  config,      \* Client.config: [vpn_ip, peers]
  phase,       \* "new", "config_error", "tun_error", "created", "returned",
               \* "running", "ended", "panicked"
  exitedBy,    \* the select! branch that ended the run
  interrupted, \* ctrl-c has been delivered to the process
  peer_map,    \* the registry: IpAddr -> Peer
  regLock,     \* holder of the peer_map mutex: "free", "link", "tun", "upstream"
  linkLock,    \* holder of each outbound link handle's mutex
  annPc,       \* announce_loop: "send", "sleep"
  linkPc,      \* link_loop: "recv", "lockreg", "link", "locklink", "exited"
  linkAnn,     \* link_loop: the announce being handled
  linkIdx,     \* link_loop: the registry key the for loop stands at
  linkNew,     \* link_loop: id of the link handle transport.link returned
  linkReqs,    \* outbound link requests issued so far, per registry key
  tunPc,       \* tun_loop: "read", "lockreg", "find", "locklink", "send", "exited"
  tunPkt,      \* tun_loop: the packet being handled
  tunLink,     \* tun_loop: the link handle find_out_link returned
  tunSent,     \* payloads handed to the transport for the packet being handled
  upPc,        \* upstream_loop: "recv", "send", "written", "lockreg", "exited"
  upEv,        \* upstream_loop: the link event being handled
  upWrites     \* tun writes made for the link event being handled

vars ==
  <<config, phase, exitedBy, interrupted, peer_map, regLock, linkLock,
    annPc, linkPc, linkAnn, linkIdx, linkNew, linkReqs,
    tunPc, tunPkt, tunLink, tunSent, upPc, upEv, upWrites>>

linkVars == <<linkPc, linkAnn, linkIdx, linkNew, linkReqs>>
tunVars == <<tunPc, tunPkt, tunLink, tunSent>>
upVars == <<upPc, upEv, upWrites>>
runVars == <<config, phase, exitedBy, interrupted>>

\* ---------------------------------------------------------------- helpers
EmptyMap == [k \in {} |-> None]

\* BTreeMap order of IpNet keys: by address, then by prefix length
NetLess(a, b) ==
  \/ a.addr[2] < b.addr[2]
  \/ a.addr[2] = b.addr[2] /\ a.prefix_len < b.prefix_len

RECURSIVE SortedNets(_)
SortedNets(S) ==
  IF S = {} THEN <<>>
  ELSE LET m == CHOOSE x \in S : \A y \in S \ {x} : NetLess(x, y)
       IN <<m>> \o SortedNets(S \ {m})

\* value of one hexadecimal character, 16 when it is none
HexDigit(c) ==
  CASE c = "0" -> 0 [] c = "1" -> 1 [] c = "2" -> 2 [] OTHER -> 16

\* AddressHash::new_from_hex_string: Some(hash) or None on a parse error
FromHexString(s) ==
  IF Len(s) = 2 /\ HexDigit(s[1]) < 16 /\ HexDigit(s[2]) < 16
  THEN Some(<<16 * HexDigit(s[1]) + HexDigit(s[2])>>)
  ELSE None

NewPeer(dest) == [dest |-> dest, link_id |-> None, link_active |-> FALSE]

\* the peer_map block of Client::run: parse each destination in key order,
\* insert under the address with the prefix length stripped
RECURSIVE BuildFrom(_, _, _)
BuildFrom(peers, keys, map) ==
  IF keys = <<>> THEN [status |-> "ok", map |-> map]
  ELSE LET ip == Head(keys)
           dest == FromHexString(peers[ip])
       IN IF dest = None THEN [status |-> "parse_error", map |-> EmptyMap]
          ELSE IF ip.addr \in DOMAIN map
               THEN [status |-> "assert_failed", map |-> EmptyMap]
               ELSE BuildFrom(peers, Tail(keys),
                              map @@ (ip.addr :> NewPeer(dest[1])))

BuildPeerMap(cfg) == BuildFrom(cfg.peers, SortedNets(DOMAIN cfg.peers), EmptyMap)

\* in_destination_hash: the address hash of the local destination
LocalHash == <<0>>

\* faulty variant of VpnIpConflict: only the first key is compared
VpnIpConflictFirstKey(cfg) ==
  /\ DOMAIN cfg.peers # {}
  /\ cfg.vpn_ip = Head(SortedNets(DOMAIN cfg.peers))

\* the guard of Client::new: config.peers.contains_key(&config.vpn_ip)
VpnIpConflict(cfg) == cfg.vpn_ip \in DOMAIN cfg.peers

\* faulty variant of Running: the loops outlive select!
RunningDetached == phase \in {"running", "ended"}

\* a loop is polled only while select! is pending
Running == phase = "running"

\* ------------------------------------------------------------ construction
\* the state in which Client::new is called with a configuration
InitNew ==
  /\ config \in Configs
  /\ phase = "new"
  /\ exitedBy = "none"
  /\ interrupted = FALSE
  /\ peer_map = EmptyMap
  /\ regLock = "free"
  /\ linkLock = [l \in LinkIds |-> "free"]
  /\ annPc = "send"
  /\ linkPc = "recv" /\ linkAnn = None /\ linkIdx = None /\ linkNew = None
  /\ linkReqs = EmptyMap
  /\ tunPc = "read" /\ tunPkt = None /\ tunLink = None /\ tunSent = <<>>
  /\ upPc = "recv" /\ upEv = None /\ upWrites = <<>>

loopVars ==
  <<peer_map, regLock, linkLock, annPc, linkVars, tunVars, upVars>>

\* Client::new: reject a vpn_ip that is a peer key, then create the tun device
ClientNew(tunOk) ==
  /\ phase = "new"
  /\ phase' = IF VpnIpConflict(config) THEN "config_error"
              ELSE IF tunOk THEN "created" ELSE "tun_error"
  /\ UNCHANGED <<config, exitedBy, interrupted, loopVars>>

\* Client::run up to select!: build the registry, register the destination
RunSetup ==
  /\ phase = "created"
  /\ LET built == BuildPeerMap(config)
     IN /\ phase' = CASE built.status = "ok" -> "running"
                      [] built.status = "parse_error" -> "returned"
                      [] OTHER -> "panicked"
        /\ peer_map' = built.map
        /\ linkReqs' = [k \in DOMAIN built.map |-> 0]
  /\ UNCHANGED <<config, exitedBy, interrupted, regLock, linkLock,
                 annPc, linkPc, linkAnn, linkIdx, linkNew, tunVars, upVars>>

\* ------------------------------------------------------------- supervisor
\* the process receives ctrl-c
Interrupt ==
  /\ Running
  /\ ~interrupted
  /\ interrupted' = TRUE
  /\ UNCHANGED <<config, phase, exitedBy, loopVars>>

\* select!: the ctrl_c branch is ready
SelectCtrlC ==
  /\ Running
  /\ interrupted
  /\ phase' = "ended"
  /\ exitedBy' = "ctrl_c"
  /\ UNCHANGED <<config, interrupted, loopVars>>

\* select!: a loop's future completed
LoopExit(name) ==
  /\ phase' = "ended"
  /\ exitedBy' = name
  /\ UNCHANGED <<config, interrupted>>

\* ---------------------------------------------------------- announce_loop
\* faulty variant of AnnounceSend: the announcement waits for the registry lock
AnnounceSendLocked ==
  /\ Running
  /\ annPc = "send"
  /\ regLock = "free"
  /\ annPc' = "sleep"
  /\ UNCHANGED <<runVars, peer_map, regLock, linkLock,
                 linkVars, tunVars, upVars>>

AnnounceSend ==
  /\ Running
  /\ annPc = "send"
  /\ annPc' = "sleep"
  /\ UNCHANGED <<runVars, peer_map, regLock, linkLock,
                 linkVars, tunVars, upVars>>

AnnounceWake ==
  /\ Running
  /\ annPc = "sleep"
  /\ annPc' = "send"
  /\ UNCHANGED <<runVars, peer_map, regLock, linkLock,
                 linkVars, tunVars, upVars>>

\* -------------------------------------------------------------- link_loop
\* the test of the for loop's body: the announce is this peer's destination
\* and the peer has no link yet
\* faulty variant of NeedsLink: the link_id.is_none() test is left out
NeedsLinkAnyState(peer, dest) == dest = peer.dest

NeedsLink(peer, dest) == dest = peer.dest /\ peer.link_id = None

\* the first key after host `after`, in key order, whose peer needs a link
NextMatch(map, dest, after) ==
  LET cand == {k \in DOMAIN map : k[2] > after /\ NeedsLink(map[k], dest)}
  IN IF cand = {} THEN None
     ELSE Some(CHOOSE k \in cand : \A j \in cand : k[2] <= j[2])

\* faulty variant of GuardWhileLinking: the registry guard is dropped before
\* transport.link is awaited
GuardDroppedWhileLinking == "free"

\* the holder of the registry lock while link_loop awaits transport.link and
\* the lock of the new link: the guard taken in the head of the for loop lives
\* until the loop ends
GuardWhileLinking == "link"

\* the for loop over peer_map.values_mut(), from the key after `after` up to
\* its next await: transport.link for a peer that needs a link, or the end of
\* the loop, where the registry guard and the announce are dropped
LinkScan(map, after) ==
  LET k == NextMatch(map, linkAnn[1], after)
  IN IF k = None
     THEN /\ regLock' = "free"
          /\ linkPc' = "recv"
          /\ linkAnn' = None
          /\ linkIdx' = None
          /\ UNCHANGED linkReqs
     ELSE /\ regLock' = GuardWhileLinking
          /\ linkPc' = "link"
          /\ linkIdx' = k
          /\ linkReqs' = [linkReqs EXCEPT ![k[1]] = @ + 1]
          /\ UNCHANGED linkAnn

\* announce_recv.recv() returns an announce; its destination is locked
LinkRecv(dest) ==
  /\ Running
  /\ linkPc = "recv"
  /\ linkPc' = "lockreg"
  /\ linkAnn' = Some(dest)
  /\ UNCHANGED <<runVars, peer_map, regLock, linkLock, annPc,
                 linkIdx, linkNew, linkReqs, tunVars, upVars>>

\* announce_recv.recv() returns an error: the while loop ends
LinkRecvErr ==
  /\ Running
  /\ linkPc = "recv"
  /\ linkPc' = "exited"
  /\ LoopExit("link_loop")
  /\ UNCHANGED <<peer_map, regLock, linkLock, annPc,
                 linkAnn, linkIdx, linkNew, linkReqs, tunVars, upVars>>

\* peer_map.lock() is acquired; the for loop runs to its first await
LinkLockReg ==
  /\ Running
  /\ linkPc = "lockreg"
  /\ regLock = "free"
  /\ LinkScan(peer_map, 0)
  /\ UNCHANGED <<runVars, peer_map, linkLock, annPc, linkNew,
                 tunVars, upVars>>

\* transport.link(destination.desc) returns the handle of link `id`
LinkCreated(id) ==
  /\ Running
  /\ linkPc = "link"
  /\ linkPc' = "locklink"
  /\ linkNew' = Some(id)
  /\ UNCHANGED <<runVars, peer_map, regLock, linkLock, annPc,
                 linkAnn, linkIdx, linkReqs, tunVars, upVars>>

\* link.lock() is acquired: the peer records the link id, and the for loop
\* goes on to its next await
LinkRecord ==
  /\ Running
  /\ linkPc = "locklink"
  /\ linkLock[linkNew[1]] = "free"
  /\ peer_map' = [peer_map EXCEPT ![linkIdx[1]] =
                    [@ EXCEPT !.link_id = linkNew, !.link_active = FALSE]]
  /\ linkNew' = None
  /\ LinkScan(peer_map', linkIdx[1][2])
  /\ UNCHANGED <<runVars, linkLock, annPc, tunVars, upVars>>

\* --------------------------------------------------------------- tun_loop
\* etherparse::IpHeaders::from_slice and the ipv4/ipv6 match: the destination
\* address of a packet, None when the packet does not parse
ParseDst(pkt) ==
  IF Len(pkt) >= 3 /\ pkt[1] \in {4, 6} THEN Some(<<pkt[1], pkt[2]>>) ELSE None

\* faulty variant of Lookup: the address family is ignored
LookupByHost(map, ip) ==
  LET hit == {k \in DOMAIN map : k[2] = ip[2]}
  IN IF hit = {} THEN None ELSE Some(map[CHOOSE k \in hit : TRUE])

\* peer_map.get(&destination_ip)
Lookup(map, ip) == IF ip \in DOMAIN map THEN Some(map[ip]) ELSE None

\* what transport.find_out_link(&dest) can return: None, or the handle of an
\* outbound link to dest
FindOutLink(dest) == {None} \cup {Some([id |-> l, dest |-> dest]) : l \in LinkIds}

\* faulty variant of DataPacket: the first byte of the packet is left out
DataPacketBody(link, bytes) ==
  [link |-> link.id, dest |-> link.dest, data |-> Tail(bytes)]

\* link.data_packet(&bytes) handed to transport.send_packet
DataPacket(link, bytes) == [link |-> link.id, dest |-> link.dest, data |-> bytes]

\* the end of one iteration of the while loop: its locals are dropped
TunNext ==
  /\ tunPc' = "read"
  /\ tunPkt' = None
  /\ tunLink' = None
  /\ tunSent' = <<>>

\* faulty variant of TunRead: the next packet is also read while the payload of
\* the previous one is still being sent
TunReadAhead(pkt) ==
  /\ Running
  /\ tunPc \in {"read", "send"}
  /\ IF tunPc = "send"
     THEN tunPkt' = Some(pkt) /\ UNCHANGED <<tunPc, tunLink, tunSent>>
     ELSE IF ParseDst(pkt) = None
          THEN TunNext
          ELSE /\ tunPc' = "lockreg"
               /\ tunPkt' = Some(pkt)
               /\ UNCHANGED <<tunLink, tunSent>>
  /\ UNCHANGED <<runVars, peer_map, regLock, linkLock, annPc,
                 linkVars, upVars>>

\* self.tun.read() returns a packet; an unparsable one is dropped
TunRead(pkt) ==
  /\ Running
  /\ tunPc = "read"
  /\ IF ParseDst(pkt) = None
     THEN TunNext
     ELSE /\ tunPc' = "lockreg"
          /\ tunPkt' = Some(pkt)
          /\ UNCHANGED <<tunLink, tunSent>>
  /\ UNCHANGED <<runVars, peer_map, regLock, linkLock, annPc,
                 linkVars, upVars>>

\* self.tun.read() returns an error: the while loop ends
TunReadErr ==
  /\ Running
  /\ tunPc = "read"
  /\ tunPc' = "exited"
  /\ LoopExit("tun_loop")
  /\ UNCHANGED <<peer_map, regLock, linkLock, annPc, linkVars,
                 tunPkt, tunLink, tunSent, upVars>>

\* faulty variant of HasLink: the forwarder goes on without a recorded link
HasLinkAlways(peer) == TRUE

\* if let Some(link_id) = peer.link_id.as_ref()
HasLink(peer) == peer.link_id # None

\* peer_map.lock() is acquired and the destination looked up: the guard lives
\* to the end of the if let, so it is kept while a peer with a link is served
TunLockReg ==
  /\ Running
  /\ tunPc = "lockreg"
  /\ regLock = "free"
  /\ LET peer == Lookup(peer_map, ParseDst(tunPkt[1])[1])
     IN IF peer = None \/ ~HasLink(peer[1])
        THEN TunNext /\ UNCHANGED regLock
        ELSE /\ regLock' = "tun"
             /\ tunPc' = "find"
             /\ UNCHANGED <<tunPkt, tunLink, tunSent>>
  /\ UNCHANGED <<runVars, peer_map, linkLock, annPc, linkVars, upVars>>

\* transport.find_out_link(&peer.dest) returns: without a handle the packet
\* is dropped with a warning
TunFind ==
  /\ Running
  /\ tunPc = "find"
  /\ \E link \in FindOutLink(Lookup(peer_map, ParseDst(tunPkt[1])[1])[1].dest) :
       IF link = None
       THEN TunNext /\ regLock' = "free"
       ELSE /\ tunPc' = "locklink"
            /\ tunLink' = link
            /\ UNCHANGED <<regLock, tunPkt, tunSent>>
  /\ UNCHANGED <<runVars, peer_map, linkLock, annPc, linkVars, upVars>>

\* link.lock() is acquired; data_packet(&bytes).unwrap() either yields the
\* packet, which is handed to transport.send_packet, or panics
TunLockLink(ok) ==
  /\ Running
  /\ tunPc = "locklink"
  /\ linkLock[tunLink[1].id] = "free"
  /\ linkLock' = [linkLock EXCEPT ![tunLink[1].id] = "tun"]
  /\ IF ok
     THEN /\ tunPc' = "send"
          /\ tunSent' = Append(tunSent, DataPacket(tunLink[1], tunPkt[1]))
          /\ UNCHANGED <<runVars>>
     ELSE /\ phase' = "panicked"
          /\ exitedBy' = "tun_loop"
          /\ UNCHANGED <<config, interrupted, tunPc, tunSent>>
  /\ UNCHANGED <<peer_map, regLock, annPc, linkVars, tunPkt, tunLink,
                 upVars>>

\* faulty variant of TunSendDone: the guard of the link handle is never dropped
TunSendDoneKeepsLink ==
  /\ Running
  /\ tunPc = "send"
  /\ regLock' = "free"
  /\ TunNext
  /\ UNCHANGED <<runVars, peer_map, linkLock, annPc, linkVars, upVars>>

\* transport.send_packet returns: the link guard and the registry guard are
\* dropped
TunSendDone ==
  /\ Running
  /\ tunPc = "send"
  /\ linkLock' = [linkLock EXCEPT ![tunLink[1].id] = "free"]
  /\ regLock' = "free"
  /\ TunNext
  /\ UNCHANGED <<runVars, peer_map, annPc, linkVars, upVars>>

\* ---------------------------------------------------------- upstream_loop
\* faulty variant of ForLocal: the address_hash test is left out
ForAnyDestination(ev) == TRUE

\* the guard of every arm of the match: the event is for the local destination
ForLocal(ev) == ev.address_hash = LocalHash

\* faulty variant of Dispatch: data is accepted on recorded links only
DispatchKnownLinks(ev) ==
  IF ~ForLocal(ev) THEN "recv"
  ELSE CASE ev.kind = "Data" ->
              IF \E k \in DOMAIN peer_map : peer_map[k].link_id = Some(ev.id)
              THEN "send" ELSE "recv"
         [] ev.kind = "Activated" -> "lockreg"
         [] OTHER -> "recv"

\* the match on link_event.event: the next await of the loop
Dispatch(ev) ==
  IF ~ForLocal(ev) THEN "recv"
  ELSE CASE ev.kind = "Data" -> "send"
         [] ev.kind = "Activated" -> "lockreg"
         [] OTHER -> "recv"

\* faulty variants of Activates: every peer, or every peer that has a link
ActivatesAny(peer, ev) == TRUE

ActivatesLinked(peer, ev) == peer.link_id # None

\* the test of the activation scan: peer.link_id == Some(link_event.id)
Activates(peer, ev) == peer.link_id = Some(ev.id)

\* faulty variant of OnClosed: the peers of the closed link fall back to no link
OnClosedReset(map, ev) ==
  [k \in DOMAIN map |->
     IF map[k].link_id = Some(ev.id)
     THEN [map[k] EXCEPT !.link_id = None, !.link_active = FALSE]
     ELSE map[k]]

\* the LinkEvent::Closed arm: the event is logged, the registry is left as it is
OnClosed(map, ev) == map

\* in_link_events.recv() returns an event
UpRecv(ev) ==
  /\ Running
  /\ upPc = "recv"
  /\ upPc' = Dispatch(ev)
  /\ upEv' = IF Dispatch(ev) = "recv" THEN None ELSE Some(ev)
  /\ peer_map' = IF ForLocal(ev) /\ ev.kind = "Closed"
                 THEN OnClosed(peer_map, ev)
                 ELSE peer_map
  /\ UNCHANGED <<runVars, regLock, linkLock, annPc,
                 linkVars, tunVars, upWrites>>

\* in_link_events.recv() returns an error: the while loop ends
UpRecvErr ==
  /\ Running
  /\ upPc = "recv"
  /\ upPc' = "exited"
  /\ LoopExit("upstream_loop")
  /\ UNCHANGED <<peer_map, regLock, linkLock, annPc, linkVars,
                 tunVars, upEv, upWrites>>

\* faulty variant of AfterWrite: a failed write is logged and the loop goes on
AfterWriteContinue(ok) == "written"

\* match self.tun.send(..).await: Ok(()) goes on, Err(err) logs and breaks
AfterWrite(ok) == IF ok THEN "written" ELSE "exited"

\* self.tun.send(payload) writes the payload to the device; an error breaks
\* out of the loop
UpWrite(ok) ==
  /\ Running
  /\ upPc = "send"
  /\ upWrites' = Append(upWrites, upEv[1].payload)
  /\ upPc' = AfterWrite(ok)
  /\ IF AfterWrite(ok) = "exited"
     THEN LoopExit("upstream_loop")
     ELSE UNCHANGED runVars
  /\ UNCHANGED <<peer_map, regLock, linkLock, annPc, linkVars,
                 tunVars, upEv>>

\* self.tun.send returned Ok: the event is dropped
UpWritten ==
  /\ Running
  /\ upPc = "written"
  /\ upPc' = "recv"
  /\ upEv' = None
  /\ upWrites' = <<>>
  /\ UNCHANGED <<runVars, peer_map, regLock, linkLock, annPc,
                 linkVars, tunVars>>

\* peer_map.lock() is acquired: every peer whose link_id is the event's is
\* marked active, and the guard is dropped
UpActivate ==
  /\ Running
  /\ upPc = "lockreg"
  /\ regLock = "free"
  /\ peer_map' = [k \in DOMAIN peer_map |->
                    IF Activates(peer_map[k], upEv[1])
                    THEN [peer_map[k] EXCEPT !.link_active = TRUE]
                    ELSE peer_map[k]]
  /\ upPc' = "recv"
  /\ upEv' = None
  /\ UNCHANGED <<runVars, regLock, linkLock, annPc, linkVars,
                 tunVars, upWrites>>

\* the configurations the loops are explored under: the local address is the
\* last host, every peer is another host of the same network, and Client::new
\* and the registry construction accept the configuration
RunConfigs ==
  {c \in Configs :
     /\ c.vpn_ip = [addr |-> <<4, CHOOSE h \in Hosts : \A g \in Hosts : g <= h>>,
                    prefix_len |-> 24]
     /\ \A ip \in DOMAIN c.peers : ip.prefix_len = 24
     /\ ~VpnIpConflict(c)
     /\ BuildPeerMap(c).status = "ok"}

\* the state in which select! starts polling the loops: Client::new and the
\* setup of Client::run have succeeded
Init ==
  /\ config \in RunConfigs
  /\ phase = "running"
  /\ exitedBy = "none"
  /\ interrupted = FALSE
  /\ peer_map = BuildPeerMap(config).map
  /\ regLock = "free"
  /\ linkLock = [l \in LinkIds |-> "free"]
  /\ annPc = "send"
  /\ linkPc = "recv" /\ linkAnn = None /\ linkIdx = None /\ linkNew = None
  /\ linkReqs = [k \in DOMAIN peer_map |-> 0]
  /\ tunPc = "read" /\ tunPkt = None /\ tunLink = None /\ tunSent = <<>>
  /\ upPc = "recv" /\ upEv = None /\ upWrites = <<>>

NextNew ==
  \/ \E tunOk \in BOOLEAN : ClientNew(tunOk)
  \/ RunSetup

SpecNew == InitNew /\ [][NextNew]_vars

Next ==
  \/ Interrupt
  \/ SelectCtrlC
  \/ AnnounceSend
  \/ AnnounceWake
  \/ \E dest \in AddressHashes : LinkRecv(dest)
  \/ LinkRecvErr
  \/ LinkLockReg
  \/ \E id \in LinkIds : LinkCreated(id)
  \/ LinkRecord
  \/ \E pkt \in Packets : TunRead(pkt)
  \/ TunReadErr
  \/ TunLockReg
  \/ TunFind
  \/ \E ok \in BOOLEAN : TunLockLink(ok)
  \/ TunSendDone
  \/ \E ev \in LinkEvents : UpRecv(ev)
  \/ UpRecvErr
  \/ \E ok \in BOOLEAN : UpWrite(ok)
  \/ UpWritten
  \/ UpActivate

Spec == Init /\ [][Next]_vars

\* the scheduling of the announce loop: select! polls it whenever it can go
\* on, send_announce returns and the sleep elapses
FairAnnounce ==
  /\ WF_vars(AnnounceSend)
  /\ WF_vars(AnnounceWake)

\* the scheduling of the other loops between their locks: select! polls every
\* loop that can go on, and a transport or interface call that was made
\* returns. What the environment decides is left unfair: the arrival of
\* announces, packets, link events and of the interrupt, and the failures.
FairCalls ==
  /\ WF_vars(\E id \in LinkIds : LinkCreated(id))
  /\ WF_vars(LinkRecord)
  /\ WF_vars(TunFind)
  /\ WF_vars(\E ok \in BOOLEAN : TunLockLink(ok))
  /\ WF_vars(TunSendDone)
  /\ WF_vars(\E ok \in BOOLEAN : UpWrite(ok))
  /\ WF_vars(UpWritten)

\* the registry lock is a tokio Mutex, which is handed to its waiters in the
\* order of their requests: a waiter for a lock that is released again and
\* again gets it
FairActivate == SF_vars(UpActivate)

FairLocks ==
  /\ SF_vars(LinkLockReg)
  /\ SF_vars(TunLockReg)
  /\ FairActivate

\* the fair runs start from the configurations in which every other host is a
\* peer and all peers name the same destination, so that one announce makes
\* the link establisher request a link for each of them
FairConfigs ==
  {c \in RunConfigs :
     /\ \A h \in Hosts : <<4, h>> # c.vpn_ip.addr =>
          [addr |-> <<4, h>>, prefix_len |-> 24] \in DOMAIN c.peers
     /\ \A ip \in DOMAIN c.peers : c.peers[ip] = <<"0", "1">>}

InitFair == Init /\ config \in FairConfigs

SpecAnnounce == InitFair /\ [][Next]_vars /\ FairAnnounce

SpecActivate == InitFair /\ [][Next]_vars /\ FairCalls /\ FairActivate

SpecFair == InitFair /\ [][Next]_vars /\ FairCalls /\ FairLocks

\* ------------------------------------------------------------------ claims
\* the destination address of the packet the egress forwarder is handling
TunDst == ParseDst(tunPkt[1])[1]

\* C1: the registry lock is never held by a loop that is suspended on a mesh
\* transport call (link creation, outbound-link lookup, link-handle lock,
\* packet send) or on an interface read or write.
C1_LockNotHeldAcrossAwait ==
  /\ regLock = "link" => linkPc \notin {"link", "locklink"}
  /\ regLock = "tun" => tunPc \notin {"find", "locklink", "send", "read"}
  /\ regLock = "upstream" => upPc \notin {"send", "written"}

\* C2: an outbound link request is issued for a peer only while its link_id is
\* None, and it is the only one ever issued for that peer.
C2_OneLinkRequestPerPeer ==
  [][\A k \in DOMAIN peer_map :
       linkReqs'[k] # linkReqs[k] =>
         /\ peer_map[k].link_id = None
         /\ linkReqs[k] = 0
         /\ linkReqs'[k] = 1]_vars

\* an announce of a peer arrives after the peer's link was requested and recorded
C2_Witness ==
  \E k \in DOMAIN peer_map :
    /\ linkPc = "lockreg"
    /\ linkAnn = Some(peer_map[k].dest)
    /\ peer_map[k].link_id # None
    /\ linkReqs[k] = 1

\* C3: every peer whose link_active is true has a link_id.
C3_ActiveImpliesLinkId ==
  \A k \in DOMAIN peer_map :
    peer_map[k].link_active => peer_map[k].link_id # None

C3_Witness == \E k \in DOMAIN peer_map : peer_map[k].link_active

\* the egress forwarder ends its handling of a packet addressed to a peer
\* whose link is active: the iteration ends, or data_packet panics
TunEndsActive ==
  /\ tunPkt # None
  /\ TunDst \in DOMAIN peer_map
  /\ peer_map[TunDst].link_active
  /\ \/ tunPkt' = None
     \/ phase = "running" /\ phase' = "panicked"

\* the one payload the claim expects: the raw bytes, on a link to the peer's
\* destination
ExpectedSent ==
  {<<[link |-> l, dest |-> peer_map[TunDst].dest, data |-> tunPkt[1]]>> :
     l \in LinkIds}

\* C4 as stated: every packet addressed to a peer with an active link results
\* in exactly one transmitted payload, the raw bytes on the link to D.
C4_AlwaysOnePayload == [][TunEndsActive => tunSent \in ExpectedSent]_vars

\* C4 amended: exactly one payload, the raw bytes on the handle the transport
\* returned for D, when find_out_link returned a handle and data_packet
\* succeeded; nothing is transmitted when find_out_link returned none (the
\* packet is dropped) or when data_packet failed (the loop panics).
C4_OnePayloadWhenLinkFound ==
  [][TunEndsActive =>
       IF tunLink # None /\ phase' = "running"
       THEN /\ tunSent \in ExpectedSent
            /\ tunSent[1].link = tunLink[1].id
       ELSE tunSent = <<>>]_vars

C4_Witness ==
  /\ tunPc = "send"
  /\ peer_map[TunDst].link_active
  /\ tunSent \in ExpectedSent

\* the packet being handled is addressed to no key of the registry
TunMiss == tunPkt # None /\ TunDst \notin DOMAIN peer_map

\* C5: a packet whose destination is no registry key is dropped at the lookup:
\* nothing is transmitted for it, the forwarder's step leaves the registry and
\* the run as they are, and the forwarder is back at reading.
C5_DropOnMiss ==
  [][/\ TunMiss' => tunPc' = "lockreg" /\ tunSent' = <<>> /\ tunLink' = None
     /\ TunMiss /\ tunPc' # tunPc =>
          /\ tunPc' = "read"
          /\ tunSent' = <<>>
          /\ peer_map' = peer_map
          /\ regLock' = regLock
          /\ phase' = phase]_vars

\* an IPv6 packet for host n waits at the lookup while the IPv4 peer of host n
\* has a link
C5_Witness ==
  /\ TunMiss
  /\ tunPkt[1][1] = 6
  /\ \E k \in DOMAIN peer_map : k[2] = tunPkt[1][2] /\ peer_map[k].link_id # None

\* C6: every data event for the local destination is taken to the interface
\* write, whatever its link id, and by the time its handling ends exactly one
\* write was made, of exactly its payload.
C6_OneWritePerDataEvent ==
  /\ phase = "running" /\ upPc = "recv" =>
       \A ev \in LinkEvents :
         ev.address_hash = LocalHash /\ ev.kind = "Data" =>
           ENABLED (UpRecv(ev) /\ upPc' = "send" /\ upEv' = Some(ev))
  /\ upPc = "send" => upEv # None /\ upEv[1].kind = "Data" /\ upWrites = <<>>
  /\ upPc = "written" \/ (upPc = "exited" /\ upEv # None) =>
       upWrites = <<upEv[1].payload>>

\* a payload was written for a data event whose link id no peer records,
\* while some peer records another link id
C6_Witness ==
  /\ upPc = "written"
  /\ upWrites = <<upEv[1].payload>>
  /\ \A k \in DOMAIN peer_map : peer_map[k].link_id # Some(upEv[1].id)
  /\ \E k \in DOMAIN peer_map : peer_map[k].link_id # None

\* C7: an event for another destination is dropped where it is received: the
\* injector stays at receiving and changes neither the registry nor the
\* interface, and whatever event the injector writes or activates for is an
\* event for the local destination.
C7_ForeignEventsIgnored ==
  /\ upEv # None => upEv[1].address_hash = LocalHash
  /\ upPc \in {"send", "written", "lockreg"} => upEv # None
  /\ \A ev \in LinkEvents :
       ev.address_hash # LocalHash =>
         ~ENABLED (/\ UpRecv(ev)
                   /\ \/ upPc' # "recv"
                      \/ upEv' # None
                      \/ peer_map' # peer_map
                      \/ upWrites' # upWrites)

\* the injector is receiving while a peer has a link that is not active yet:
\* a foreign activation naming that link can be delivered
C7_Witness ==
  /\ phase = "running"
  /\ upPc = "recv"
  /\ \E k \in DOMAIN peer_map :
       peer_map[k].link_id # None /\ ~peer_map[k].link_active

\* C8: handling an activation event sets link_active for exactly the peers
\* whose link_id is the event's and changes nothing else of any peer; with no
\* such peer the registry is unchanged.
C8_ActivationMatchesLinkId ==
  [][upPc = "lockreg" /\ upPc' # upPc =>
       \A k \in DOMAIN peer_map :
         peer_map'[k] =
           IF peer_map[k].link_id = Some(upEv[1].id)
           THEN [peer_map[k] EXCEPT !.link_active = TRUE]
           ELSE peer_map[k]]_vars

\* one peer is active and another peer, with another link id, is not
C8_Witness ==
  \E j, k \in DOMAIN peer_map :
    /\ peer_map[j].link_active
    /\ peer_map[k].link_id # None
    /\ peer_map[k].link_id # peer_map[j].link_id
    /\ ~peer_map[k].link_active

\* C9: a loop that exits ends the run in the same step; a received interrupt
\* can end the run at once, whatever the loops are waiting for; and once the
\* run has ended nothing is transmitted, written, requested or updated.
C9_FirstExitEndsRun ==
  /\ linkPc = "exited" \/ tunPc = "exited" \/ upPc = "exited" => phase = "ended"
  /\ phase = "running" /\ interrupted =>
       ENABLED (SelectCtrlC /\ phase' = "ended")
  /\ phase \in {"ended", "panicked"} =>
       ~ENABLED (Next /\ <<phase, peer_map, tunSent, upWrites, linkReqs>>'
                          # <<phase, peer_map, tunSent, upWrites, linkReqs>>)

\* the run was ended by the interrupt while the link establisher held the
\* registry lock and the egress forwarder waited for it
C9_Witness ==
  /\ phase = "ended"
  /\ exitedBy = "ctrl_c"
  /\ regLock = "link"
  /\ tunPc = "lockreg"
  /\ upPc = "lockreg"

\* C10: a configuration whose vpn_ip is a key of peers is rejected by
\* Client::new: no client is created and the run never starts.
C10_ConflictRejected ==
  config.vpn_ip \in DOMAIN config.peers => phase \in {"new", "config_error"}

C10_Witness ==
  /\ phase = "config_error"
  /\ config.vpn_ip \in DOMAIN config.peers
  /\ Cardinality(DOMAIN config.peers) = 2

\* C11: the link state of a peer only moves forward: a link_id that is set is
\* never cleared nor replaced, a link_active that is true never becomes false,
\* and a closure event, whatever link it names, changes no field of any peer.
C11_LinkStateOnlyForward ==
  [][/\ \A k \in DOMAIN peer_map :
          /\ k \in DOMAIN peer_map'
          /\ peer_map[k].link_id # None =>
                peer_map'[k].link_id = peer_map[k].link_id
          /\ peer_map[k].link_active => peer_map'[k].link_active
          /\ peer_map'[k].dest = peer_map[k].dest
     /\ \A ev \in LinkEvents :
          ev.kind = "Closed" => ~ENABLED (UpRecv(ev) /\ peer_map' # peer_map)
     /\ (upEv' # None => upEv'[1].kind # "Closed")]_vars

\* a peer is active on its link and the injector is about to receive the next
\* event, which may be the closure of that link
C11_Witness ==
  /\ phase = "running"
  /\ upPc = "recv"
  /\ \E k \in DOMAIN peer_map :
       /\ peer_map[k].link_active
       /\ \E ev \in LinkEvents :
            /\ ev.kind = "Closed"
            /\ ev.address_hash = LocalHash
            /\ peer_map[k].link_id = Some(ev.id)
            /\ ENABLED UpRecv(ev)

\* C12: a packet for a peer whose link_id is None makes the egress forwarder
\* transmit nothing, request no link and leave the registry as it is; a link
\* request is issued only by the link establisher while it handles an announce.
C12_NoLinkNoSideEffect ==
  [][/\ ( /\ tunPc = "lockreg"
          /\ tunPc' # tunPc
          /\ TunDst \in DOMAIN peer_map
          /\ peer_map[TunDst].link_id = None )
        => /\ tunPc' = "read"
           /\ tunSent = <<>> /\ tunSent' = <<>>
           /\ tunLink' = None
           /\ linkReqs' = linkReqs
           /\ peer_map' = peer_map
           /\ regLock' = regLock
     /\ linkReqs' # linkReqs
        => /\ linkAnn # None
           /\ linkPc \in {"lockreg", "locklink"}
           /\ linkPc' = "link"
           /\ <<tunPc, tunSent, upPc>>' = <<tunPc, tunSent, upPc>>]_vars

\* the forwarder takes the registry lock for a packet to a configured peer that
\* has no link and no request, while another peer has a link: the packet is
\* dropped
C12_Witness ==
  /\ phase = "running"
  /\ tunPc = "lockreg"
  /\ regLock = "free"
  /\ TunDst \in DOMAIN peer_map
  /\ peer_map[TunDst].link_id = None
  /\ linkReqs[TunDst] = 0
  /\ \E k \in DOMAIN peer_map : peer_map[k].link_id # None
  /\ ENABLED (TunLockReg /\ tunPc' = "read")

\* C13: the egress forwarder ends, and ends the run, only when a read from the
\* interface fails; whatever happens to a packet that was read, nothing crashes
\* and the loop goes on to read the next packet.
C13_OnlyReadErrorEndsEgress ==
  /\ phase # "panicked"
  /\ exitedBy = "tun_loop" =>
       phase = "ended" /\ tunPc = "exited" /\ tunPkt = None
  /\ phase = "running" /\ tunPc \notin {"read", "lockreg"} =>
       ENABLED (Next /\ tunPc' # tunPc /\ phase' = "running")

\* C14: a failed write to the interface ends the ingress injector, which handles
\* no further event, and with it the whole run; a successful write never ends
\* the loop.
C14_WriteFailureEndsRun ==
  /\ upPc = "exited" =>
       /\ phase = "ended"
       /\ ~ENABLED ((\E ev \in LinkEvents : UpRecv(ev)) \/ UpActivate
                     \/ UpWritten \/ \E ok \in BOOLEAN : UpWrite(ok))
  /\ phase = "running" /\ upPc = "send" =>
       /\ ENABLED UpWrite(FALSE)
       /\ ~ENABLED (UpWrite(FALSE)
                     /\ ~(upPc' = "exited" /\ phase' = "ended"
                            /\ exitedBy' = "upstream_loop"))
       /\ ENABLED UpWrite(TRUE)
       /\ ~ENABLED (UpWrite(TRUE)
                     /\ ~(upPc' = "written" /\ phase' = "running"))
  /\ phase = "running" /\ upPc = "written" =>
       ENABLED (UpWritten /\ upPc' = "recv" /\ phase' = "running")

\* the run was ended by the injector after a write, while the other loops were
\* in the middle of their work
C14_Witness ==
  /\ phase = "ended"
  /\ exitedBy = "upstream_loop"
  /\ upPc = "exited"
  /\ upEv # None
  /\ upWrites # <<>>
  /\ regLock = "tun"
  /\ linkPc = "lockreg"

\* C15: the egress forwarder handles one packet at a time, without buffering or
\* reordering: a packet is read only when the previous one is done with, and
\* the one payload an iteration hands to the transport carries the bytes of the
\* packet read in that iteration and goes to the destination of its peer.
C15_OnePacketAtATime ==
  [][/\ tunPkt' # tunPkt =>
          \/ /\ tunPkt = None /\ tunPkt' # None
             /\ tunPc = "read" /\ tunPc' = "lockreg"
             /\ tunSent = <<>> /\ tunSent' = <<>>
             /\ regLock # "tun"
             /\ \A l \in LinkIds : linkLock[l] # "tun"
          \/ /\ tunPkt # None /\ tunPkt' = None
             /\ tunPc' = "read"
             /\ tunSent' = <<>>
     /\ tunSent' # tunSent /\ tunSent' # <<>> =>
          /\ tunSent = <<>>
          /\ tunPkt # None /\ tunPkt' = tunPkt
          /\ tunSent' = <<[link |-> tunLink[1].id,
                           dest |-> peer_map[TunDst].dest,
                           data |-> tunPkt[1]]>>
          /\ tunPc' = "send"
     /\ (tunPc = "send") /\ tunPc' # tunPc /\ phase' = "running" =>
          tunPc' = "read" /\ tunPkt' = None]_vars

\* the payload of the packet in hand is with the transport while both peers have
\* a link
C15_Witness ==
  /\ phase = "running"
  /\ tunPc = "send"
  /\ tunSent = <<[link |-> tunLink[1].id, dest |-> peer_map[TunDst].dest,
                  data |-> tunPkt[1]]>>
  /\ Cardinality({k \in DOMAIN peer_map : peer_map[k].link_id # None}) = 2

\* C16: as long as the run has not ended the announce broadcaster sends an
\* announcement at the start and again after every sleep, infinitely often
\* under fair scheduling, whatever the registry holds and whoever holds or waits
\* for the registry lock.
C16_AnnouncesForever ==
  /\ annPc = "send"
  /\ []<>(phase # "running" \/ annPc = "sleep")
  /\ []<>(phase # "running" \/ annPc = "send")

\* an announcement has just been sent while the link establisher holds the
\* registry lock and the two other loops wait for it
C16_Witness ==
  /\ phase = "running"
  /\ annPc = "sleep"
  /\ regLock = "link"
  /\ tunPc = "lockreg"
  /\ upPc = "lockreg"

\* C17: the egress forwarder hands a payload to the transport for a peer only
\* when that peer's link_active is true: nothing is sent on a link that is
\* still pending.
C17_TransmitOnlyWhenActive ==
  tunSent # <<>> => peer_map[TunDst].link_active

\* the link establisher has requested link l for the peer at k (the handle is
\* returned and about to be recorded, or it is recorded) and the injector has
\* received the activation event of l for the local destination
ActivationPending(k, l) ==
  /\ k \in DOMAIN peer_map
  /\ upPc = "lockreg"
  /\ upEv # None
  /\ upEv[1].kind = "Activated"
  /\ upEv[1].id = l
  /\ upEv[1].address_hash = LocalHash
  /\ \/ peer_map[k].link_id = Some(l)
     \/ linkPc = "locklink" /\ linkIdx = Some(k) /\ linkNew = Some(l)

\* C18: no activation is lost to the race between the link establisher and the
\* injector: when the activation event of link L arrives after L was requested
\* for a peer, be it before L is recorded, then under fair scheduling the
\* peer's link_active becomes true, unless the run ends.
\* Stated as: the pending activation does not last for ever, and the step that
\* ends it leaves the peer active or the run ended.
C18_ActivationNotLost ==
  /\ \A k \in Addrs : \A l \in LinkIds :
       []<>(\/ ~ActivationPending(k, l)
            \/ phase # "running"
            \/ peer_map[k].link_active)
  /\ [][\A k \in Addrs : \A l \in LinkIds :
          ActivationPending(k, l) /\ ~ActivationPending(k, l)' =>
            phase' # "running" \/ peer_map'[k].link_active]_vars

\* the activation event of a link is in the injector's hands while the link
\* establisher has the handle of that link but has not recorded it yet
C18_Witness ==
  /\ phase = "running"
  /\ \E k \in DOMAIN peer_map : \E l \in LinkIds :
       /\ ActivationPending(k, l)
       /\ peer_map[k].link_id = None
       /\ linkPc = "locklink"

\* C19: the loops never block each other on their locks for good: while the run
\* goes on, a loop that waits for the registry lock or for the lock of a link
\* handle gets it, and a lock that is held is released, given that the calls
\* of the transport and of the interface return. The lock of the announce's
\* destination and the lock of the read buffer are taken by one loop only
\* (LinkRecv, TunRead) and are never waited for.
C19_LocksAreAcquired ==
  /\ []<>(linkPc # "lockreg" \/ phase # "running")
  /\ []<>(tunPc # "lockreg" \/ phase # "running")
  /\ []<>(upPc # "lockreg" \/ phase # "running")
  /\ []<>(linkPc # "locklink" \/ phase # "running")
  /\ []<>(tunPc # "locklink" \/ phase # "running")
  /\ []<>(regLock = "free" \/ phase # "running")

\* the egress forwarder holds the registry lock and waits for the lock of a link
\* handle while the two other loops wait for the registry lock
C19_Witness ==
  /\ phase = "running"
  /\ regLock = "tun"
  /\ tunPc = "locklink"
  /\ linkPc = "lockreg"
  /\ upPc = "lockreg"

\* C20: for every configuration Client::new accepts, the construction of the
\* registry never fails its uniqueness assertion: the registry gets one entry
\* per configured peer, keyed by the peer's address without the prefix length,
\* and no key is the address of the local virtual IP.
C20_AcceptedConfigBuilds ==
  /\ phase # "panicked"
  /\ phase = "running" =>
       /\ DOMAIN peer_map = {ip.addr : ip \in DOMAIN config.peers}
       /\ Cardinality(DOMAIN peer_map) = Cardinality(DOMAIN config.peers)
       /\ config.vpn_ip.addr \notin DOMAIN peer_map

====
